---- MODULE Spec2Model ----
(***************************************************************************)
(* Model of demo.cpp: the encrypted similarity-and-decision pipeline.      *)
(* Reals are fixed-point integers: a vector component is in units of       *)
(* 1/Scale, a score (a product of two components) in units of 1/One.       *)
(* A ciphertext is the record of what it encrypts (its slots), the inputs  *)
(* it was derived from, the multiplicative level it consumed and the       *)
(* tournament round that produced it.                                      *)
(***************************************************************************)
EXTENDS Integers, Sequences, FiniteSets

\* ---------------------------------------------------------------- bounds
\* MaxN bounds DB_N (100 in the source), DIM the vector dimension (64 there);
\* Scale is the fixed-point resolution of a component, MaxNoise the largest
\* decryption error in score units, MaxParties the largest NUM_PARTIES and
\* THRESHOLD_PARTIES tried (both 1 in the source).
MaxN == 4
DIM == 2
Scale == 2
MaxNoise == 1
MaxParties == 2

\* ------------------------------------------------------ program constants
MULT_DEPTH == 10
\* pairwise_max performs no multiplication: the depth of its approxAbs
ApproxAbsDepth == 0
PLAIN_MAX_INIT == 0 - (2 * Scale * Scale)

One == Scale * Scale
Slots == 1..DIM
BATCH_SIZE == DIM
RotationIndices == {1, 2, 4, 8, 16, 32, 64}
\* SIMILARITY_THRESHOLD is 0.5 in the source; 1.0 is the other value tried
Thresholds == {One \div 2, One}

VARIABLES
  pc,            \* position in main
  params,        \* DB_N, NUM_PARTIES, THRESHOLD_PARTIES, SIMILARITY_THRESHOLD
  db, query,     \* the normalized plaintext vectors
  plain_max, plain_argmax,
  kp0,           \* the key pair: good(), which key material it holds
  evalKeys,      \* evaluation keys held by the context
  enc_db, enc_query, enc_sims,
  working, next, i, call,
  roundLog,      \* one entry per completed iteration of the while loop
  enc_maxSim, enc_threshold,
  decryptLog,    \* one entry per cc->Decrypt call
  enc_max, is_unique_plaintext, is_unique_encrypted, accuracy_error,
  exitCode

vars == <<pc, params, db, query, plain_max, plain_argmax, kp0, evalKeys,
          enc_db, enc_query, enc_sims, working, next, i, call, roundLog,
          enc_maxSim, enc_threshold, decryptLog, enc_max,
          is_unique_plaintext, is_unique_encrypted, accuracy_error, exitCode>>

\* ------------------------------------------------------------ pure helpers
Abs(x) == IF x < 0 THEN 0 - x ELSE x

Max2(x, y) == IF x > y THEN x ELSE y

RECURSIVE SumTo(_, _)
SumTo(f, n) == IF n = 0 THEN 0 ELSE f[n] + SumTo(f, n - 1)

\* normalize_inplace leaves a vector of unit L2 norm
UnitVectors == {v \in [Slots -> {0, Scale}] : SumTo([k \in Slots |-> v[k] * v[k]], DIM) = One}

\* the dot product of lines 70-71
PlainDot(q, v) == SumTo([k \in Slots |-> q[k] * v[k]], DIM)

\* the baseline loop of lines 67-73 over items 1..n: <<plain_max, plain_argmax>>
\* (plain_argmax is the 0-based index the source keeps)
RECURSIVE Baseline(_, _, _)
Baseline(q, d, n) ==
  IF n = 0 THEN <<PLAIN_MAX_INIT, 0>>
  ELSE LET prev == Baseline(q, d, n - 1)
           s == PlainDot(q, d[n])
       IN IF s > prev[1] THEN <<s, n - 1>> ELSE prev

\* ------------------------------------------------------ homomorphic library
NoCt == [kind |-> "none", val |-> [k \in Slots |-> 0], deps |-> <<>>, level |-> 0, rnd |-> 0]

MakeCKKSPackedPlaintext(v) == [k \in Slots |-> v[k]]

Encrypt(kind, p, deps) == [kind |-> kind, val |-> p, deps |-> deps, level |-> 0, rnd |-> 0]

EvalMult(A, B) ==
  [kind |-> "prod", val |-> [k \in Slots |-> A.val[k] * B.val[k]], deps |-> B.deps,
   level |-> Max2(A.level, B.level) + 1, rnd |-> 0]

EvalSum(C, batch) ==
  [kind |-> "sim", val |-> [k \in Slots |-> SumTo(C.val, batch)], deps |-> C.deps,
   level |-> C.level, rnd |-> 0]

EvalAdd(A, B) ==
  [kind |-> "max", val |-> [k \in Slots |-> A.val[k] + B.val[k]], deps |-> A.deps \o B.deps,
   level |-> Max2(A.level, B.level), rnd |-> 0]

EvalSub(A, B) ==
  [kind |-> "max", val |-> [k \in Slots |-> A.val[k] - B.val[k]], deps |-> A.deps \o B.deps,
   level |-> Max2(A.level, B.level), rnd |-> 0]

\* the lambda of lines 146-161: sum and diff are computed, sum is returned
pairwise_max(A, B) ==
  LET sum == EvalAdd(A, B)
      diff == EvalSub(A, B)
  IN sum

\* ------------------------------------------------- steps of main, as operators
\* a key generation that continues although kp0.good() is false
AfterKeyGenUnchecked(good) == "evalkeys"

\* lines 100-103: where main goes after KeyGen
AfterKeyGen(good) == IF good THEN "evalkeys" ELSE "exit"

\* a pairing that reads the element the round has just produced
OperandFromNext(w, nx, k) == IF nx # <<>> /\ k % 2 = 1 THEN nx[Len(nx)] ELSE w[k]

\* line 167: the operands of a pairing are working[i] and working[i+1]
\* (k is the 1-based position)
Operand(w, nx, k) == w[k]

\* a for loop that advances by one: overlapping pairs
NextIndexByOne(k) == k + 1

\* line 166: i += 2
NextIndex(k) == k + 2

\* an odd element that is dropped
PassThroughDropped(w, nx) == nx

\* lines 169-171: next after the for loop
PassThroughNext(w, nx) == IF Len(w) % 2 = 1 THEN Append(nx, w[Len(w)]) ELSE nx

\* a decryption of the first per-item similarity
FirstSimilarity == enc_sims[1]

\* line 186: the ciphertext handed to cc->Decrypt
DecryptedCiphertext == enc_maxSim

\* a non-strict comparison
DecisionNonStrict(m, t) == m <= t

\* lines 196-197: x < SIMILARITY_THRESHOLD
Decision(m, t) == m < t

\* ------------------------------------------------------------------- Init
Init ==
  /\ pc = "baseline"
  /\ \E n \in 1..MaxN, np \in 1..MaxParties, tp \in 1..MaxParties, th \in Thresholds :
       /\ params = [DB_N |-> n, NUM_PARTIES |-> np, THRESHOLD_PARTIES |-> tp,
                    SIMILARITY_THRESHOLD |-> th]
       /\ db \in [1..n -> UnitVectors]
  /\ query \in UnitVectors
  /\ plain_max = PLAIN_MAX_INIT
  /\ plain_argmax = 0
  /\ kp0 = [generated |-> FALSE, good |-> FALSE, publicKey |-> FALSE, secretKey |-> "none"]
  /\ evalKeys = [mult |-> FALSE, rot |-> {}]
  /\ enc_db = <<>>
  /\ enc_query = NoCt
  /\ enc_sims = <<>>
  /\ working = <<>>
  /\ next = <<>>
  /\ i = 0
  /\ call = <<>>
  /\ roundLog = <<>>
  /\ enc_maxSim = NoCt
  /\ enc_threshold = NoCt
  /\ decryptLog = <<>>
  /\ enc_max = 0
  /\ is_unique_plaintext = FALSE
  /\ is_unique_encrypted = FALSE
  /\ accuracy_error = 0
  /\ exitCode = -1

\* ---------------------------------------------------------------- actions
\* lines 66-75
PlaintextBaseline ==
  /\ pc = "baseline"
  /\ LET r == Baseline(query, db, params.DB_N)
     IN /\ plain_max' = r[1]
        /\ plain_argmax' = r[2]
  /\ pc' = "keygen"
  /\ UNCHANGED <<params, db, query, kp0, evalKeys, enc_db, enc_query, enc_sims,
                 working, next, i, call, roundLog, enc_maxSim, enc_threshold,
                 decryptLog, enc_max, is_unique_plaintext, is_unique_encrypted,
                 accuracy_error, exitCode>>

\* lines 77-104: context creation, KeyGen; kp0.good() decides
KeyGen ==
  /\ pc = "keygen"
  /\ \E good \in BOOLEAN :
       /\ kp0' = IF good
                 THEN [generated |-> TRUE, good |-> TRUE, publicKey |-> TRUE,
                       secretKey |-> "complete"]
                 ELSE [generated |-> TRUE, good |-> FALSE, publicKey |-> FALSE,
                       secretKey |-> "none"]
       /\ pc' = AfterKeyGen(good)
       /\ exitCode' = IF AfterKeyGen(good) = "exit" THEN 1 ELSE exitCode
  /\ UNCHANGED <<params, db, query, plain_max, plain_argmax, evalKeys, enc_db,
                 enc_query, enc_sims, working, next, i, call, roundLog, enc_maxSim,
                 enc_threshold, decryptLog, enc_max, is_unique_plaintext,
                 is_unique_encrypted, accuracy_error>>

\* lines 106-108
EvalKeyGen ==
  /\ pc = "evalkeys"
  /\ evalKeys' = [mult |-> TRUE, rot |-> RotationIndices]
  /\ i' = 0
  /\ pc' = "encrypt_db"
  /\ UNCHANGED <<params, db, query, plain_max, plain_argmax, kp0, enc_db,
                 enc_query, enc_sims, working, next, call, roundLog, enc_maxSim,
                 enc_threshold, decryptLog, enc_max, is_unique_plaintext,
                 is_unique_encrypted, accuracy_error, exitCode>>

\* lines 114-118: one iteration
EncryptDb ==
  /\ pc = "encrypt_db"
  /\ i < params.DB_N
  /\ enc_db' = Append(enc_db, Encrypt("db", MakeCKKSPackedPlaintext(db[i + 1]), <<i + 1>>))
  /\ i' = i + 1
  /\ UNCHANGED <<pc, params, db, query, plain_max, plain_argmax, kp0, evalKeys,
                 enc_query, enc_sims, working, next, call, roundLog, enc_maxSim,
                 enc_threshold, decryptLog, enc_max, is_unique_plaintext,
                 is_unique_encrypted, accuracy_error, exitCode>>

\* lines 119-120
EncryptQuery ==
  /\ pc = "encrypt_db"
  /\ ~(i < params.DB_N)
  /\ enc_query' = Encrypt("query", MakeCKKSPackedPlaintext(query), <<>>)
  /\ i' = 0
  /\ pc' = "sims"
  /\ UNCHANGED <<params, db, query, plain_max, plain_argmax, kp0, evalKeys,
                 enc_db, enc_sims, working, next, call, roundLog, enc_maxSim,
                 enc_threshold, decryptLog, enc_max, is_unique_plaintext,
                 is_unique_encrypted, accuracy_error, exitCode>>

\* lines 126-134: one iteration
ComputeSim ==
  /\ pc = "sims"
  /\ i < params.DB_N
  /\ LET prod == EvalMult(enc_query, enc_db[i + 1])
         dot == EvalSum(prod, BATCH_SIZE)
     IN enc_sims' = Append(enc_sims, dot)
  /\ i' = i + 1
  /\ UNCHANGED <<pc, params, db, query, plain_max, plain_argmax, kp0, evalKeys,
                 enc_db, enc_query, working, next, call, roundLog, enc_maxSim,
                 enc_threshold, decryptLog, enc_max, is_unique_plaintext,
                 is_unique_encrypted, accuracy_error, exitCode>>

\* line 140
StartTournament ==
  /\ pc = "sims"
  /\ ~(i < params.DB_N)
  /\ working' = enc_sims
  /\ pc' = "while"
  /\ UNCHANGED <<params, db, query, plain_max, plain_argmax, kp0, evalKeys,
                 enc_db, enc_query, enc_sims, next, i, call, roundLog, enc_maxSim,
                 enc_threshold, decryptLog, enc_max, is_unique_plaintext,
                 is_unique_encrypted, accuracy_error, exitCode>>

\* lines 164-165: the loop test passes, a fresh next
RoundBegin ==
  /\ pc = "while"
  /\ Len(working) > 1
  /\ next' = <<>>
  /\ i' = 0
  /\ call' = <<>>
  /\ pc' = "for"
  /\ UNCHANGED <<params, db, query, plain_max, plain_argmax, kp0, evalKeys,
                 enc_db, enc_query, enc_sims, working, roundLog, enc_maxSim,
                 enc_threshold, decryptLog, enc_max, is_unique_plaintext,
                 is_unique_encrypted, accuracy_error, exitCode>>

\* lines 166-168: one pairing of the round under way
PairStep ==
  /\ pc = "for"
  /\ i + 1 < Len(working)
  /\ LET A == Operand(working, next, i + 1)
         B == Operand(working, next, i + 2)
         r == [pairwise_max(A, B) EXCEPT !.rnd = Len(roundLog) + 1]
     IN /\ call' = <<A, B, r>>
        /\ next' = Append(next, r)
  /\ i' = NextIndex(i)
  /\ UNCHANGED <<pc, params, db, query, plain_max, plain_argmax, kp0, evalKeys,
                 enc_db, enc_query, enc_sims, working, roundLog, enc_maxSim,
                 enc_threshold, decryptLog, enc_max, is_unique_plaintext,
                 is_unique_encrypted, accuracy_error, exitCode>>

\* lines 169-171: the for loop is over; an odd element passes through
PassThrough ==
  /\ pc = "for"
  /\ ~(i + 1 < Len(working))
  /\ next' = PassThroughNext(working, next)
  /\ pc' = "swap"
  /\ UNCHANGED <<params, db, query, plain_max, plain_argmax, kp0, evalKeys,
                 enc_db, enc_query, enc_sims, working, i, call, roundLog, enc_maxSim,
                 enc_threshold, decryptLog, enc_max, is_unique_plaintext,
                 is_unique_encrypted, accuracy_error, exitCode>>

\* lines 172-174: swap, the round's line of output, next goes out of scope
Swap ==
  /\ pc = "swap"
  /\ working' = next
  /\ roundLog' = Append(roundLog,
       [before |-> Len(working),
        passed |-> Cardinality({k \in 1..Len(next) : \E j \in 1..Len(working) : next[k] = working[j]}),
        last_kept |-> (next # <<>> /\ next[Len(next)] = working[Len(working)]),
        remaining |-> Len(next)])
  /\ next' = <<>>
  /\ pc' = "while"
  /\ UNCHANGED <<params, db, query, plain_max, plain_argmax, kp0, evalKeys,
                 enc_db, enc_query, enc_sims, i, call, enc_maxSim,
                 enc_threshold, decryptLog, enc_max, is_unique_plaintext,
                 is_unique_encrypted, accuracy_error, exitCode>>

\* lines 164, 175-181: the loop test fails; the result and the encrypted threshold
TournamentEnd ==
  /\ pc = "while"
  /\ ~(Len(working) > 1)
  /\ enc_maxSim' = working[1]
  /\ LET threshold_vec == [k \in Slots |-> IF k = 1 THEN params.SIMILARITY_THRESHOLD ELSE 0]
     IN enc_threshold' = Encrypt("threshold", MakeCKKSPackedPlaintext(threshold_vec), <<>>)
  /\ pc' = "decrypt"
  /\ UNCHANGED <<params, db, query, plain_max, plain_argmax, kp0, evalKeys,
                 enc_db, enc_query, enc_sims, working, next, i, call, roundLog,
                 decryptLog, enc_max, is_unique_plaintext,
                 is_unique_encrypted, accuracy_error, exitCode>>

\* lines 183-190: Decrypt with kp0.secretKey; CKKS decryption is approximate
Decrypt ==
  /\ pc = "decrypt"
  /\ \E e \in (0 - MaxNoise)..MaxNoise :
       /\ decryptLog' = Append(decryptLog,
            [ct |-> DecryptedCiphertext, key |-> kp0.secretKey, parties |-> 1, noise |-> e])
       /\ enc_max' = DecryptedCiphertext.val[1] + e
  /\ pc' = "decide"
  /\ UNCHANGED <<params, db, query, plain_max, plain_argmax, kp0, evalKeys,
                 enc_db, enc_query, enc_sims, working, next, i, call, roundLog,
                 enc_maxSim, enc_threshold, is_unique_plaintext,
                 is_unique_encrypted, accuracy_error, exitCode>>

\* lines 195-222
Decide ==
  /\ pc = "decide"
  /\ is_unique_plaintext' = Decision(plain_max, params.SIMILARITY_THRESHOLD)
  /\ is_unique_encrypted' = Decision(enc_max, params.SIMILARITY_THRESHOLD)
  /\ accuracy_error' = Abs(plain_max - enc_max)
  /\ exitCode' = 0
  /\ pc' = "exit"
  /\ UNCHANGED <<params, db, query, plain_max, plain_argmax, kp0, evalKeys,
                 enc_db, enc_query, enc_sims, working, next, i, call, roundLog,
                 enc_maxSim, enc_threshold, decryptLog, enc_max>>

Next ==
  \/ PlaintextBaseline
  \/ KeyGen
  \/ EvalKeyGen
  \/ EncryptDb
  \/ EncryptQuery
  \/ ComputeSim
  \/ StartTournament
  \/ RoundBegin
  \/ PairStep
  \/ PassThrough
  \/ Swap
  \/ TournamentEnd
  \/ Decrypt
  \/ Decide

Spec == Init /\ [][Next]_vars

\* ------------------------------------------------- definitions for the claims
Iota(n) == [k \in 1..n |-> k]

CeilLog2(n) == CHOOSE r \in 0..n : 2^r >= n /\ (r = 0 \/ 2^(r - 1) < n)

IsPowerOfTwo(n) == \E r \in 0..n : 2^r = n

RECURSIVE FlattenDeps(_)
FlattenDeps(cts) == IF cts = <<>> THEN <<>> ELSE Head(cts).deps \o FlattenDeps(Tail(cts))

Scores == {PlainDot(query, db[k]) : k \in 1..params.DB_N}

MaxScore == CHOOSE m \in Scores : \A s \in Scores : s <= m

RequiredDepth(n) == 1 + CeilLog2(n) * ApproxAbsDepth

InTournament == pc \in {"while", "for", "swap"}

TournamentOver == pc \in {"decrypt", "decide"} \/ (pc = "exit" /\ exitCode = 0)

Completed == pc = "exit" /\ exitCode = 0

CryptoWorkDone ==
  \/ enc_db # <<>>
  \/ enc_query # NoCt
  \/ enc_sims # <<>>
  \/ working # <<>>
  \/ next # <<>>
  \/ enc_maxSim # NoCt
  \/ enc_threshold # NoCt
  \/ decryptLog # <<>>

\* C1: the value decrypted from the tournament's result is the maximum of the
\* plaintext scores, up to the decryption noise (the code has no approxAbs, so
\* no approximation error): with zero noise it equals max(scores).
C1_DecryptedIsMax ==
  (decryptLog # <<>> /\ pc \in {"decide", "exit"})
     => Abs(enc_max - MaxScore) <= Abs(decryptLog[1].noise)

\* C2: every call of pairwise_max(A, B) returns (A + B + |A - B|) / 2 in each
\* slot, the maximum of A and B, never their sum.
C2_PairwiseIsMax ==
  call # <<>> =>
     \A k \in Slots :
        2 * call[3].val[k] = call[1].val[k] + call[2].val[k] + Abs(call[1].val[k] - call[2].val[k])

\* C3: the tournament ends after exactly ceil(log2(N)) rounds with one element
\* left; a round over an even working set passes nothing through, a round over
\* an odd one passes exactly its last element through unchanged; for N a power
\* of two no round passes anything through.
C3_RoundsAndPassThrough ==
  /\ \A r \in 1..Len(roundLog) :
        /\ roundLog[r].passed = roundLog[r].before % 2
        /\ (roundLog[r].before % 2 = 1) => roundLog[r].last_kept
        /\ IsPowerOfTwo(params.DB_N) => roundLog[r].passed = 0
  /\ Len(roundLog) <= CeilLog2(params.DB_N)
  /\ TournamentOver => (Len(roundLog) = CeilLog2(params.DB_N) /\ Len(working) = 1)

C3_Witness ==
  /\ Completed
  /\ params.DB_N = 3
  /\ Len(roundLog) = 2
  /\ roundLog[1].passed = 1 /\ roundLog[1].last_kept
  /\ roundLog[2].passed = 0

\* C4: isUnique = (max < threshold), strictly, for the plaintext and for the
\* encrypted decision: a maximum equal to the threshold is not unique.
C4_StrictThreshold ==
  Completed =>
     /\ is_unique_plaintext <=> (plain_max < params.SIMILARITY_THRESHOLD)
     /\ is_unique_encrypted <=> (enc_max < params.SIMILARITY_THRESHOLD)
     /\ (plain_max = params.SIMILARITY_THRESHOLD) => ~is_unique_plaintext
     /\ (enc_max = params.SIMILARITY_THRESHOLD) => ~is_unique_encrypted

C4_Witness ==
  /\ Completed
  /\ plain_max = params.SIMILARITY_THRESHOLD
  /\ enc_max = params.SIMILARITY_THRESHOLD
  /\ ~is_unique_plaintext
  /\ ~is_unique_encrypted

C8_KeysBeforeCrypto ==
  /\ [](/\ CryptoWorkDone => (kp0.good /\ kp0.publicKey /\ evalKeys.mult
                               /\ evalKeys.rot = RotationIndices)
        /\ (kp0.generated /\ ~kp0.good) => (pc = "exit" /\ exitCode = 1 /\ ~CryptoWorkDone)
        /\ exitCode = 1 => ~kp0.good)
  /\ [][evalKeys.mult => (kp0' = kp0 /\ evalKeys' = evalKeys)]_vars

C8_Witness ==
  /\ pc = "sims"
  /\ Len(enc_db) = params.DB_N /\ enc_query # NoCt /\ Len(enc_sims) = 2
  /\ kp0.good /\ evalKeys.mult /\ evalKeys.rot = RotationIndices

\* C9: a pairing of the round under way reads only elements of the working set
\* the previous round left (made in an earlier round), never one made in this
\* round; the working set is left alone while the round runs and is replaced
\* only when all its pairings are done.
C9_RoundBarrier ==
  /\ (InTournament \/ TournamentOver) =>
        \A k \in 1..Len(working) : working[k].rnd <= Len(roundLog)
  /\ pc \in {"for", "swap"} =>
        /\ \A k \in 1..Len(next) :
              \/ next[k].rnd = Len(roundLog) + 1
              \/ (k = Len(next) /\ pc = "swap" /\ next[k] = working[Len(working)])
        /\ call # <<>> =>
              /\ call[1] = working[i - 1] /\ call[2] = working[i]
              /\ call[1].rnd < call[3].rnd /\ call[2].rnd < call[3].rnd
              /\ call[3] = next[i \div 2]
        /\ Len(next) >= i \div 2
  /\ pc = "swap" =>
        /\ ~(i + 1 < Len(working))
        /\ Len(next) = (Len(working) + 1) \div 2

C9_Witness ==
  /\ pc = "for"
  /\ Len(roundLog) = 1
  /\ call # <<>>
  /\ call[1].rnd = 1 /\ call[2].rnd = 0 /\ call[3].rnd = 2

\* C10: the working set always covers the N scores as a partition into
\* contiguous index ranges in the original order, a round turns a set of n
\* elements into one of ceil(n/2) >= 1, and the final element depends on every
\* score exactly once.
C10_WorkingPartition ==
  /\ (InTournament \/ TournamentOver) =>
        /\ FlattenDeps(working) = Iota(params.DB_N)
        /\ \A k \in 1..Len(working) : working[k].deps # <<>>
        /\ Len(working) >= 1
  /\ \A r \in 1..Len(roundLog) :
        /\ roundLog[r].remaining = (roundLog[r].before + 1) \div 2
        /\ roundLog[r].remaining >= 1
  /\ TournamentOver => enc_maxSim.deps = Iota(params.DB_N)

C10_Witness ==
  /\ pc = "for"
  /\ params.DB_N = 4
  /\ Len(roundLog) = 1
  /\ Len(working) = 2
  /\ working[1].deps = <<1, 2>> /\ working[2].deps = <<3, 4>>

====
